---- MODULE Spec2Model ----
(***************************************************************************)
(* Model of scripts/copy_datadir.py: the ".lock" ledger of a target        *)
(* directory (has_locks, the append of a write record, remove_lock,        *)
(* cleanup) and one run of copy_datasets with its worker pool.             *)
(*                                                                         *)
(* Strings are sequences of tokens.  A token is one character of an owner  *)
(* id, the "." separator, a 12-digit timestamp as strftime prints it, or   *)
(* one of the words read / write / None.  A text file is the sequence of   *)
(* its lines, stripped, and whether its last line ends with "\n".          *)
(***************************************************************************)
EXTENDS Integers, Sequences, FiniteSets, TLC

\* ------------------------------------------------------------------ bounds
\* Most records a ledger holds before a further append is left out.
MaxLines == 2

\* Most entries a catalog holds, over its three splits.
MaxEntries == 2
\* Largest size du reports for a file or for the target directory, in GB.
MaxSize == 1
\* Largest --max-gb.
MaxBudget == 2

\* ------------------------------------------------------- program constants
\* ThreadPoolExecutor(max_workers=4)
max_workers == 4
\* timedelta(days=1), in minutes (the precision of TIMESTAMP_FORMAT).
Day == 1440
\* The backoff gives up once tries exceeds 2**11.
MaxTries == 2048

\* ------------------------------------------------------------------ inputs
\* Owner ids (--lock): "a" is a proper prefix of "ab".
Owners == {<<"a">>, <<"a", "b">>}
\* lock=None, kept apart from every string.
None == <<"<None>">>
Locks == Owners \cup {None}
\* Minutes since the first timestamp: same minute, one minute, one day later.
Times == {0, 1, Day}
\* The timestamps of the processes that write records.
RecordTimes == {0, 1}

Dot == "."
\* A file of no bytes.
EmptyFile == [lines |-> <<>>, eol |-> TRUE]

\* --------------------------------------------------------------- timestamps
\* datetime.strftime(TIMESTAMP_FORMAT): minutes -> "%Y%m%d%H%M".
strftime(t) ==
    CASE t = 0 -> "202401010000"
      [] t = 1 -> "202401010001"
      [] t = Day -> "202401020000"
      [] t = Day + 1 -> "202401020001"
      [] OTHER -> "202401030000"

TimestampStrings == {strftime(t) : t \in Times \cup {Day + 1, 2 * Day}}

\* datetime.strptime(s, TIMESTAMP_FORMAT) succeeds (no exception).
strptime_ok(field) == Len(field) = 1 /\ field[1] \in TimestampStrings

\* datetime.strptime(s, TIMESTAMP_FORMAT): "%Y%m%d%H%M" -> minutes.
strptime(field) ==
    CASE field[1] = "202401010000" -> 0
      [] field[1] = "202401010001" -> 1
      [] field[1] = "202401020000" -> Day
      [] field[1] = "202401020001" -> Day + 1
      [] OTHER -> 2 * Day

\* ------------------------------------------------------------------ strings
\* str.startswith
startswith(s, p) == Len(p) <= Len(s) /\ SubSeq(s, 1, Len(p)) = p

\* str.endswith
endswith(s, p) == Len(p) <= Len(s) /\ SubSeq(s, Len(s) - Len(p) + 1, Len(s)) = p

\* The pieces of s from position i on, `piece` being the piece begun.
RECURSIVE split_from(_, _, _, _)
split_from(s, sep, i, piece) ==
    IF i > Len(s) THEN <<piece>>
    ELSE IF s[i] = sep THEN <<piece>> \o split_from(s, sep, i + 1, <<>>)
    ELSE split_from(s, sep, i + 1, Append(piece, s[i]))

\* str.split(sep): the pieces between the separators, at least one piece.
split(s, sep) == split_from(s, sep, 1, <<>>)

\* Iterating a text file and stripping each line.
readlines(text) == text.lines

\* f"{lock}": None prints as the word None.
str(l) == IF l = None THEN <<"None">> ELSE l

\* f"{lock}.{timestamp}.write" and lock + "." + timestamp + ".read"
record(l, t, kind) == str(l) \o <<Dot, strftime(t), Dot, kind>>

\* -------------------------------------------------------------- has_locks
\* foreign_write without the test for the caller's own lines.
foreign_write_no_own_test(line, l) == endswith(line, <<Dot, "write">>) /\ l # None

\* The generator of the while condition, for one line.
foreign_write(line, l) ==
    /\ endswith(line, <<Dot, "write">>)
    /\ (l # None /\ ~startswith(line, l))

\* any(... for line in open(lock_f))
any_foreign_write(text, l) ==
    LET lines == readlines(text)
    IN  \E i \in 1..Len(lines) : foreign_write(lines[i], l)

\* recent_foreign with the day boundary counted as recent.
recent_foreign_within_or_at_a_day(line, l, now) ==
    /\ ~(l # None /\ startswith(line, l))
    /\ LET fields == split(line, Dot)
       IN  /\ Len(fields) >= 2
           /\ strptime_ok(fields[2])
           /\ now - strptime(fields[2]) <= Day

\* One line of the second scan: not skipped as the caller's own, its second
\* field parses as a timestamp, and it is less than a day before `now`.
recent_foreign(line, l, now) ==
    /\ ~(l # None /\ startswith(line, l))
    /\ LET fields == split(line, Dot)
       IN  /\ Len(fields) >= 2
           /\ strptime_ok(fields[2])
           /\ now - strptime(fields[2]) < Day

\* The second scan: have_read_locks.
read_scan(text, l, now) ==
    LET lines == readlines(text)
    IN  \E i \in 1..Len(lines) : recent_foreign(lines[i], l, now)

\* The while loop over a ledger nobody changes meanwhile, where every
\* evaluation of its condition gives the same value `found`: the state
\* [tries, write, slept, scans] after it.
RECURSIVE wait_loop(_, _, _)
wait_loop(found, wait, st) ==
    IF ~found
    THEN [st EXCEPT !.scans = @ + 1]
    ELSE IF ~wait
    THEN [st EXCEPT !.scans = @ + 1, !.write = TRUE]
    ELSE LET nx == [tries |-> st.tries * 2, write |-> TRUE,
                    slept |-> st.slept + st.tries, scans |-> st.scans + 1]
         IN  IF nx.tries > MaxTries THEN nx ELSE wait_loop(found, wait, nx)

\* has_locks(directory, lock, wait_write_lock) with the run's timestamp.
has_locks(isfile, text, l, wait, now) ==
    IF ~isfile
    THEN [read |-> FALSE, write |-> FALSE, slept |-> 0, scans |-> 0]
    ELSE LET w == wait_loop(any_foreign_write(text, l), wait,
                            [tries |-> 1, write |-> FALSE, slept |-> 0, scans |-> 0])
         IN  [read |-> read_scan(text, l, now), write |-> w.write,
              slept |-> w.slept, scans |-> w.scans]

\* ------------------------------------------------------------ remove_lock
RECURSIVE kept_lines(_, _, _)
kept_lines(lines, prefix, new_lock) ==
    IF lines = <<>> THEN <<>>
    ELSE LET line == Head(lines)
             drop == \/ line = <<>>
                     \/ startswith(line, prefix)
                     \/ (new_lock # None /\ startswith(line, new_lock))
         IN  (IF drop THEN <<>> ELSE <<line>>)
                 \o kept_lines(Tail(lines), prefix, new_lock)

\* The text remove_lock writes back over the file: every kept line and the
\* new one, each followed by "\n".
remove_lock(text, prefix, new_lock) ==
    [lines |-> kept_lines(readlines(text), prefix, new_lock)
                   \o (IF new_lock # None THEN <<new_lock>> ELSE <<>>),
     eol |-> TRUE]

\* open(lock_f, "a+").write(f"\n{lock}.{timestamp}.write"): the "\n" ends
\* the last line, or makes a blank line after an empty or terminated text.
append_write(text, l, t) ==
    [lines |-> text.lines \o (IF text.eol THEN <<<<>>>> ELSE <<>>)
                   \o <<record(l, t, "write")>>,
     eol |-> FALSE]

\* ------------------------------------------------------------------- state
VARIABLES
    dirExists,          \* the target directory exists
    lockExists,         \* os.path.isfile(<target_dir>/.lock)
    content,            \* the text of <target_dir>/.lock
    ret,                \* what the last completed call saw and returned
    pc,                 \* where the running call stands
    lock,               \* its lock argument
    timestamp,          \* the module-level timestamp of its process
    tries,              \* has_locks: tries
    slept,              \* has_locks: the sum of the sleep() arguments so far
    scans,              \* has_locks: evaluations of the while condition so far
    have_read_locks,
    have_write_locks,
    cfg,                \* json.load(open(cfg_path))
    dstypes,            \* file name -> first key of its h5py file
    max_gb,
    cur_gb,
    idx,                \* files of the planning order visited so far
    fs,                 \* target path -> "absent" | "file" | "link"
    futures             \* the jobs submitted to the executor, in order

ledgerVars == <<dirExists, lockExists, content>>
callVars == <<pc, lock, timestamp, tries, slept, scans, have_read_locks, have_write_locks>>
planVars == <<cfg, dstypes, max_gb, cur_gb, idx, fs, futures>>
vars == <<ledgerVars, ret, callVars, planVars>>

NoRet == [op |-> "none"]

\* The non-blank lines of the ledger.
records(text) == SelectSeq(readlines(text), LAMBDA line : line # <<>>)

NoCall ==
    /\ pc = "idle"
    /\ lock = None
    /\ timestamp = 0
    /\ tries = 1
    /\ slept = 0
    /\ scans = 0
    /\ have_read_locks = FALSE
    /\ have_write_locks = FALSE

NoPlan ==
    /\ cfg = <<>>
    /\ dstypes = <<>>
    /\ max_gb = 0
    /\ cur_gb = 0
    /\ idx = 0
    /\ fs = <<>>
    /\ futures = <<>>

\* ------------------------------------------- the ledger, one call at a time
\* The target directory before its first use.
InitLedger ==
    /\ dirExists \in BOOLEAN
    /\ lockExists = FALSE
    /\ content = EmptyFile
    /\ ret = NoRet
    /\ NoCall
    /\ NoPlan

\* copy_datasets, lines 99 and 103: the directory is made and the write record
\* of the run is appended (the file is created by the "a+" open).
AddRecord(l, t) ==
    /\ Len(records(content)) < MaxLines
    /\ dirExists' = TRUE
    /\ lockExists' = TRUE
    /\ content' = append_write(content, l, t)
    /\ ret' = NoRet
    /\ UNCHANGED <<callVars, planVars>>

\* remove_lock(target_dir, prefix, new_lock) on an existing ledger.
RemoveLock(prefix, new_lock) ==
    /\ lockExists
    /\ content' = remove_lock(content, prefix, new_lock)
    /\ Len(records(content')) <= MaxLines
    /\ ret' = NoRet
    /\ UNCHANGED <<dirExists, lockExists, callVars, planVars>>

\* The calls of remove_lock the program makes: the rotation at the end of
\* copy_datasets (line 153) and the two calls before cleanup (lines 203, 204).
RemoveLockCall ==
    \/ \E o \in Owners, t \in RecordTimes : RemoveLock(o, record(o, t, "read"))
    \/ \E o \in Owners : RemoveLock(o \o <<Dot, "read">>, None)
    \/ \E o \in Owners : RemoveLock(o \o <<Dot, "write">>, None)

\* has_locks(target_dir, l, wait) while no other process touches the ledger.
Query(l, wait, t) ==
    /\ dirExists
    /\ LET r == has_locks(lockExists, content, l, wait, t)
       IN  ret' = [op |-> "has_locks", lock |-> l, wait |-> wait, now |-> t,
                   isfile |-> lockExists, text |-> content,
                   read |-> r.read, write |-> r.write,
                   slept |-> r.slept, scans |-> r.scans, deleted |-> FALSE]
    /\ UNCHANGED <<ledgerVars, callVars, planVars>>

\* cleanup calling has_locks with the default wait_write_lock=False.
cleanup_without_waiting == FALSE

\* Line 175: has_locks(target_dir, prev_lock, wait_write_lock=True)
cleanup_wait_write_lock == TRUE

\* cleanup(target_dir, prev_lock) while no other process touches the ledger.
Cleanup(l, t) ==
    /\ dirExists
    /\ LET r == has_locks(lockExists, content, l, cleanup_wait_write_lock, t)
           refused == r.read \/ r.write
       IN  /\ ret' = [op |-> "cleanup", lock |-> l,
                      wait |-> cleanup_wait_write_lock, now |-> t,
                      isfile |-> lockExists, text |-> content,
                      read |-> r.read, write |-> r.write,
                      slept |-> r.slept, scans |-> r.scans, deleted |-> ~refused]
           /\ dirExists' = refused
           /\ lockExists' = (lockExists /\ refused)
           /\ content' = IF refused THEN content ELSE EmptyFile
    /\ UNCHANGED <<callVars, planVars>>

NextLedger ==
    \/ \E l \in Locks, t \in RecordTimes : AddRecord(l, t)
    \/ RemoveLockCall
    \/ \E l \in Locks, w \in BOOLEAN, t \in Times : Query(l, w, t)
    \/ \E l \in Locks, t \in Times : Cleanup(l, t)

SpecLedger == InitLedger /\ [][NextLedger]_vars

\* ------------------------------------------------------------ copy_datasets
Splits == <<"train", "valid", "test">>
Files == {"f", "g"}
DsTypes == {"noise", "speech", "rir", "other"}
Factors == {1, 2}
\* A catalog entry [filename, samplingFactor].
Entries == Files \X Factors

SeqsUpTo(S, n) == UNION {[1..k -> S] : k \in 0..n}

\* The catalogs with at most MaxEntries entries, all of them in E.
CatalogsOver(E) ==
    {c \in [{"train", "valid", "test"} -> SeqsUpTo(E, MaxEntries)] :
        Len(c["train"]) + Len(c["valid"]) + Len(c["test"]) <= MaxEntries}

\* The first entry of a catalog, if it has one, names file "f": the two file
\* names are interchangeable.
first_is_f(c) ==
    LET all == c["train"] \o c["valid"] \o c["test"]
    IN  IF all = <<>> THEN TRUE ELSE all[1][1] = "f"

catalog_files(c) ==
    UNION {{c[sp][i][1] : i \in 1..Len(c[sp])} : sp \in {"train", "valid", "test"}}

\* sorted(entries, key=lambda e: e[1], reverse=True): stable, so entries with
\* equal factors keep their catalog order.
RECURSIVE sorted_desc(_)
sorted_desc(es) ==
    IF es = <<>> THEN <<>>
    ELSE LET front == sorted_desc(SubSeq(es, 1, Len(es) - 1))
             e == es[Len(es)]
             k == Cardinality({i \in 1..Len(front) : front[i][2] >= e[2]})
         IN  SubSeq(front, 1, k) \o <<e>> \o SubSeq(front, k + 1, Len(front))

\* datasets[dstype] of one split, sorted.
datasets(c, types, sp, dstype) ==
    sorted_desc(SelectSeq(c[sp], LAMBDA e : types[e[1]] = dstype))

names(es) == [i \in 1..Len(es) |-> es[i][1]]

\* The inner loops with speech datasets visited before noise datasets.
split_order_speech_first(c, types, sp) ==
    names(datasets(c, types, sp, "speech"))
        \o names(datasets(c, types, sp, "noise"))
        \o names(datasets(c, types, sp, "rir"))

\* The files of one split in the order the inner loops visit them.
split_order(c, types, sp) ==
    names(datasets(c, types, sp, "noise"))
        \o names(datasets(c, types, sp, "speech"))
        \o names(datasets(c, types, sp, "rir"))

\* The split whose loop visits the k-th file of the planning order.
split_of(c, types, k) ==
    IF k <= Len(split_order(c, types, Splits[1])) THEN Splits[1]
    ELSE IF k <= Len(split_order(c, types, Splits[1]))
                    + Len(split_order(c, types, Splits[2])) THEN Splits[2]
    ELSE Splits[3]

\* The files in the order copy_datasets visits them.
planning_order(c, types) ==
    split_order(c, types, Splits[1])
        \o split_order(c, types, Splits[2])
        \o split_order(c, types, Splits[3])

\* The budget test without the size of the new file.
too_large_without_new(cur, new, max) == cur > max

\* Line 129: if cur_gb + new_gb > max_gb
too_large(cur, new, max) == cur + new > max

\* The test for an existing target left out.
exists_unchecked(e) == FALSE

\* os.path.exists / isfile / islink of a target path (the sources exist).
exists(e) == e # "absent"

\* isfile that does not follow symbolic links.
isfile_not_following_links(e) == e = "file"

\* os.path.isfile follows symbolic links, and the sources are files.
isfile(e) == e \in {"file", "link"}
islink(e) == e = "link"

\* The wait ended by the first future that completes.
first_completed(fut) ==
    fut = <<>> \/ \E j \in 1..Len(fut) : fut[j].st \in {"done", "failed"}

\* concurrent.futures.as_completed(futures) has yielded every future.
all_completed(fut) == \A j \in 1..Len(fut) : fut[j].st \in {"done", "failed"}

running(fut) == {j \in 1..Len(fut) : fut[j].st = "running"}

\* The ledgers a run may find: none, or one Read record of owner "a".
InitLedgers ==
    { [isfile |-> FALSE, text |-> EmptyFile],
      [isfile |-> TRUE,
       text |-> [lines |-> <<record(<<"a">>, 1, "read")>>, eol |-> TRUE]] }

InitRun ==
    /\ \E led \in InitLedgers : lockExists = led.isfile /\ content = led.text
    /\ ret = NoRet
    /\ pc = "start"
    /\ lock \in {None, <<"a", "b">>}
    /\ timestamp = Day
    /\ tries = 1
    /\ slept = 0
    /\ scans = 0
    /\ have_read_locks = FALSE
    /\ have_write_locks = FALSE
    /\ cfg \in CatalogsOver(Files \X {1})
    /\ first_is_f(cfg)
    /\ dstypes \in [Files -> {"noise", "speech", "other"}]
    /\ max_gb \in -1..MaxBudget
    /\ cur_gb = 0
    /\ idx = 0
    /\ fs \in [Files -> {"absent", "file", "link"}]
    /\ \A f \in Files \ catalog_files(cfg) : dstypes[f] = "other"
    /\ \A f \in Files : dstypes[f] = "other" => fs[f] = "absent"
    /\ dirExists = (lockExists \/ \E f \in Files : fs[f] # "absent")
    /\ futures = <<>>

\* Lines 99-108: the directory is made, the locks are queried (waiting on a
\* foreign write lock), the write record is appended, the directory measured.
Begin(gb) ==
    /\ pc = "start"
    /\ LET r == has_locks(lockExists, content, lock, TRUE, timestamp)
       IN  /\ have_read_locks' = r.read
           /\ have_write_locks' = r.write
           /\ slept' = r.slept
           /\ scans' = r.scans
    /\ dirExists' = TRUE
    /\ lockExists' = TRUE
    /\ content' = append_write(content, lock, timestamp)
    /\ cur_gb' = gb
    /\ pc' = "plan"
    /\ UNCHANGED <<ret, lock, timestamp, tries, cfg, dstypes, max_gb, idx, fs, futures>>

\* futures[executor.submit(cp, fn_src, fn_tgt)] = fn_tgt; pos is the place
\* of the file in the planning order and rsync the outcome of the job's rsync
\* call, both kept for the record.
submit(fut, fn, kind, gb, pos) ==
    Append(fut, [tgt |-> fn, kind |-> kind, gb |-> gb, st |-> "queued",
                 pos |-> pos, rsync |-> "none"])

\* The planner without its tests of have_read_locks.
Visit_ignoring_read_locks(new_gb, ln_ok) ==
    /\ pc = "plan"
    /\ idx < Len(planning_order(cfg, dstypes))
    /\ LET fn == planning_order(cfg, dstypes)[idx + 1]
       IN  IF too_large(cur_gb, new_gb, max_gb)
           THEN IF ~exists(fs[fn])
                THEN /\ fs' = IF ln_ok THEN [fs EXCEPT ![fn] = "link"] ELSE fs
                     /\ pc' = IF ln_ok THEN "plan" ELSE "failed"
                     /\ UNCHANGED <<cur_gb, futures>>
                ELSE IF isfile(fs[fn]) /\ ~islink(fs[fn])
                THEN /\ futures' = submit(futures, fn, "check", new_gb, idx + 1)
                     /\ UNCHANGED <<cur_gb, fs, pc>>
                ELSE UNCHANGED <<cur_gb, fs, pc, futures>>
           ELSE /\ fs' = IF islink(fs[fn]) THEN [fs EXCEPT ![fn] = "absent"] ELSE fs
                /\ cur_gb' = cur_gb + new_gb
                /\ futures' = submit(futures, fn, "copy", new_gb, idx + 1)
                /\ UNCHANGED pc
    /\ idx' = idx + 1
    /\ UNCHANGED <<ledgerVars, ret, lock, timestamp, tries, slept, scans,
                   have_read_locks, have_write_locks, cfg, dstypes, max_gb>>

\* Lines 126-148: one file of the planning order; new_gb is what du reports
\* for it and ln_ok whether `ln -s` succeeds when it is called.
Visit(new_gb, ln_ok) ==
    /\ pc = "plan"
    /\ idx < Len(planning_order(cfg, dstypes))
    /\ LET fn == planning_order(cfg, dstypes)[idx + 1]
       IN  IF too_large(cur_gb, new_gb, max_gb)
           THEN IF ~exists(fs[fn])
                THEN /\ fs' = IF ln_ok THEN [fs EXCEPT ![fn] = "link"] ELSE fs
                     /\ pc' = IF ln_ok THEN "plan" ELSE "failed"
                     /\ UNCHANGED <<cur_gb, futures>>
                ELSE IF ~have_read_locks /\ isfile(fs[fn]) /\ ~islink(fs[fn])
                THEN /\ futures' = submit(futures, fn, "check", new_gb, idx + 1)
                     /\ UNCHANGED <<cur_gb, fs, pc>>
                ELSE UNCHANGED <<cur_gb, fs, pc, futures>>
           ELSE IF islink(fs[fn]) /\ ~have_read_locks
                THEN /\ fs' = [fs EXCEPT ![fn] = "absent"]
                     /\ cur_gb' = cur_gb + new_gb
                     /\ futures' = submit(futures, fn, "copy", new_gb, idx + 1)
                     /\ UNCHANGED pc
                ELSE IF have_read_locks /\ isfile(fs[fn])
                THEN UNCHANGED <<cur_gb, fs, pc, futures>>
                ELSE /\ cur_gb' = cur_gb + new_gb
                     /\ futures' = submit(futures, fn, "copy", new_gb, idx + 1)
                     /\ UNCHANGED <<fs, pc>>
    /\ idx' = idx + 1
    /\ UNCHANGED <<ledgerVars, ret, lock, timestamp, tries, slept, scans,
                   have_read_locks, have_write_locks, cfg, dstypes, max_gb>>

\* A worker of the pool takes a queued job.
JobStart(j) ==
    /\ j \in 1..Len(futures)
    /\ futures[j].st = "queued"
    /\ Cardinality(running(futures)) < max_workers
    /\ futures' = [futures EXCEPT ![j].st = "running"]
    /\ UNCHANGED <<ledgerVars, ret, callVars, cfg, dstypes, max_gb, cur_gb, idx, fs>>

\* cp, lines 45-46: rsync succeeds and the target is a full copy.
CpOk(j) ==
    /\ j \in 1..Len(futures)
    /\ futures[j].st = "running"
    /\ fs' = [fs EXCEPT ![futures[j].tgt] = "file"]
    /\ futures' = [futures EXCEPT ![j].st = "done", ![j].rsync = "ok"]
    /\ UNCHANGED <<ledgerVars, ret, callVars, cfg, dstypes, max_gb, cur_gb, idx>>

\* cp falling back to the link without removing the target first: the partial
\* copy stays, and the exception of rsync is not raised.
CpFail_keeps_target(j, ln_ok) ==
    /\ j \in 1..Len(futures)
    /\ futures[j].st = "running"
    /\ fs' = [fs EXCEPT ![futures[j].tgt] = "file"]
    /\ futures' = [futures EXCEPT ![j].st = "done", ![j].rsync = "failed"]
    /\ UNCHANGED <<ledgerVars, ret, callVars, cfg, dstypes, max_gb, cur_gb, idx>>

\* cp, lines 47-52: rsync fails, the target is removed if it exists and the
\* source is linked instead; a failing ln ends the job with its exception.
CpFail(j, ln_ok) ==
    /\ j \in 1..Len(futures)
    /\ futures[j].st = "running"
    /\ fs' = [fs EXCEPT ![futures[j].tgt] = IF ln_ok THEN "link" ELSE "absent"]
    /\ futures' = [futures EXCEPT ![j].st = IF ln_ok THEN "done" ELSE "failed",
                                  ![j].rsync = "failed"]
    /\ UNCHANGED <<ledgerVars, ret, callVars, cfg, dstypes, max_gb, cur_gb, idx>>

\* Lines 149-150: every split is planned and as_completed has yielded every
\* future.
Completed ==
    /\ pc = "plan"
    /\ idx = Len(planning_order(cfg, dstypes))
    /\ all_completed(futures)
    /\ pc' = "rotate"
    /\ UNCHANGED <<ledgerVars, ret, lock, timestamp, tries, slept, scans,
                   have_read_locks, have_write_locks, planVars>>

\* Lines 152-153: the lock is rotated when an owner id was supplied.
Rotate ==
    /\ pc = "rotate"
    /\ content' = IF lock # None
                  THEN remove_lock(content, lock, record(lock, timestamp, "read"))
                  ELSE content
    /\ pc' = "done"
    /\ UNCHANGED <<dirExists, lockExists, ret, lock, timestamp, tries, slept, scans,
                   have_read_locks, have_write_locks, planVars>>

NextRun ==
    \/ \E gb \in 0..MaxSize : Begin(gb)
    \/ \E gb \in 0..MaxSize, ln_ok \in BOOLEAN : Visit(gb, ln_ok)
    \/ \E j \in 1..MaxEntries : JobStart(j)
    \/ \E j \in 1..MaxEntries : CpOk(j)
    \/ \E j \in 1..MaxEntries, ln_ok \in BOOLEAN : CpFail(j, ln_ok)
    \/ Completed
    \/ Rotate

SpecRun == InitRun /\ [][NextRun]_vars

\* A run over catalogs with sampling factors 1 and 2 and datasets of the three
\* visited types, into an empty target directory without a ledger.
InitPriority ==
    /\ dirExists = FALSE
    /\ lockExists = FALSE
    /\ content = EmptyFile
    /\ ret = NoRet
    /\ pc = "start"
    /\ lock = <<"a", "b">>
    /\ timestamp = Day
    /\ tries = 1
    /\ slept = 0
    /\ scans = 0
    /\ have_read_locks = FALSE
    /\ have_write_locks = FALSE
    /\ cfg \in CatalogsOver(Entries)
    /\ first_is_f(cfg)
    /\ dstypes \in [Files -> {"noise", "speech", "rir"}]
    /\ max_gb \in 0..MaxBudget
    /\ cur_gb = 0
    /\ idx = 0
    /\ fs = [f \in Files |-> "absent"]
    /\ futures = <<>>

SpecPriority == InitPriority /\ [][NextRun]_vars

\* ------------------------- has_locks(wait_write_lock=True), step by step
\* The call as copy_datasets (line 101) and cleanup (line 175) make it, while
\* other processes append their write records and rotate their locks.
InitWait ==
    /\ dirExists = TRUE
    /\ lockExists \in BOOLEAN
    /\ content = EmptyFile
    /\ ret = NoRet
    /\ pc = "call"
    /\ lock \in Locks
    /\ timestamp \in Times
    /\ tries = 1
    /\ slept = 0
    /\ scans = 0
    /\ have_read_locks = FALSE
    /\ have_write_locks = FALSE
    /\ NoPlan

\* Lines 56-61: without a ledger file the call returns (False, False).
Enter ==
    /\ pc = "call"
    /\ pc' = IF lockExists THEN "while" ELSE "returned"
    /\ UNCHANGED <<ledgerVars, ret, lock, timestamp, tries, slept, scans,
                   have_read_locks, have_write_locks, planVars>>

\* Lines 62-69: one evaluation of the while condition over the ledger as it
\* is now; wait_write_lock is set, so a foreign write lock leads to the sleep.
WhileTest ==
    /\ pc = "while"
    /\ scans' = scans + 1
    /\ IF any_foreign_write(content, lock)
       THEN have_write_locks' = TRUE /\ pc' = "sleep"
       ELSE UNCHANGED have_write_locks /\ pc' = "scan"
    /\ UNCHANGED <<ledgerVars, ret, lock, timestamp, tries, slept,
                   have_read_locks, planVars>>

\* The step of tries that never grows.
next_tries_unchanged(t) == t

\* Line 73: tries *= 2
next_tries(t) == t * 2

\* Lines 72-75: sleep(tries), double tries, give up beyond 2**11.
Sleep ==
    /\ pc = "sleep"
    /\ slept' = slept + tries
    /\ tries' = next_tries(tries)
    /\ pc' = IF tries' > MaxTries THEN "scan" ELSE "while"
    /\ UNCHANGED <<ledgerVars, ret, lock, timestamp, scans,
                   have_read_locks, have_write_locks, planVars>>

\* Lines 76-92: the second scan, and the return.
Scan ==
    /\ pc = "scan"
    /\ have_read_locks' = read_scan(content, lock, timestamp)
    /\ pc' = "returned"
    /\ UNCHANGED <<ledgerVars, ret, lock, timestamp, tries, slept, scans,
                   have_write_locks, planVars>>

HasLocksStep == Enter \/ WhileTest \/ Sleep \/ Scan

NextWait ==
    \/ HasLocksStep
    \/ \E l \in Locks, t \in RecordTimes : AddRecord(l, t)
    \/ RemoveLockCall

SpecWait == InitWait /\ [][NextWait]_vars

\* The process that called has_locks keeps running: sleep() returns.
SpecWaitFair == SpecWait /\ WF_vars(HasLocksStep)

\* ---------------------------------------------- the records, as the spec reads them
\* "<ownerId>.<timestamp>.<kind>": the owner id is the text before the first ".".
owner_of(line) == split(line, Dot)[1]
kind_of(line) == line[Len(line)]
\* The age of a record at `now`, in minutes.
age_of(line, now) == now - strptime(split(line, Dot)[2])

writes_of(text) ==
    {i \in 1..Len(records(text)) : kind_of(records(text)[i]) = "write"}
reads_of(text) ==
    {i \in 1..Len(records(text)) : kind_of(records(text)[i]) = "read"}

\* Every record of the ledger is 24 hours old or older at `now`.
all_stale(text, now) ==
    \A i \in 1..Len(records(text)) : age_of(records(text)[i], now) >= Day

\* ------------------------------------------------------------------ claims
\* C1: when every Write line of the ledger was authored by the non-null
\* caller X, has_locks(dir, X, wait) returns have_write_locks = False.
C1_OwnWritesAreNotForeign ==
    ( /\ ret.op = "has_locks"
      /\ ret.lock # None
      /\ \A i \in writes_of(ret.text) : owner_of(records(ret.text)[i]) = ret.lock )
    => ~ret.write

\* C1 witness: a waiting query by X over a ledger that holds a Write record
\* of X returned without a foreign write lock and without sleeping.
C1_Witness ==
    /\ ret.op = "has_locks"
    /\ ret.lock # None
    /\ ret.wait
    /\ writes_of(ret.text) # {}
    /\ \A i \in writes_of(ret.text) : owner_of(records(ret.text)[i]) = ret.lock
    /\ ~ret.write
    /\ ret.slept = 0

\* C8: for an anonymous caller every Write line is foreign: with a Write line
\* in the ledger has_locks(dir, None, wait) returns have_write_locks = True,
\* and with wait set it has slept.
C8_AnonymousSeesEveryWrite ==
    ( /\ ret.op = "has_locks"
      /\ ret.lock = None
      /\ writes_of(ret.text) # {} )
    => (ret.write /\ (ret.wait => ret.slept > 0))

\* C9: for a non-null caller X, has_locks without waiting returns
\* have_write_locks = True exactly when the ledger holds a Write record whose
\* owner id differs from X (also when X is a prefix of that owner id).
C9_ForeignIffOtherOwner ==
    ( /\ ret.op = "has_locks"
      /\ ret.lock # None
      /\ ~ret.wait )
    => (ret.write <=>
            \E i \in writes_of(ret.text) : owner_of(records(ret.text)[i]) # ret.lock)

\* C3: with a Read record of another owner less than 24 hours old in the
\* ledger, cleanup does not delete the target directory.
C3_CleanupRefusesOnRecentForeignRead ==
    ( /\ ret.op = "cleanup"
      /\ \E i \in reads_of(ret.text) :
            /\ owner_of(records(ret.text)[i]) # ret.lock
            /\ age_of(records(ret.text)[i], ret.now) < Day )
    => ~ret.deleted

\* C4 as stated: with an empty ledger, or every record 24 hours old or older,
\* cleanup deletes the target directory, whoever calls it.
C4_CleanupDeletesStale ==
    (ret.op = "cleanup" /\ all_stale(ret.text, ret.now)) => ret.deleted

\* C4 amended: with an empty ledger, or every record 24 hours old or older and
\* no Write record of another owner (for an anonymous caller: no Write record
\* at all), cleanup deletes the target directory and its ledger.
C4_CleanupDeletesStaleWithoutForeignWrite ==
    ( /\ ret.op = "cleanup"
      /\ all_stale(ret.text, ret.now)
      /\ \A i \in writes_of(ret.text) :
            ret.lock # None /\ owner_of(records(ret.text)[i]) = ret.lock )
    => (ret.deleted /\ ~dirExists /\ ~lockExists)

\* C4 witness: cleanup by a named caller deleted a directory whose ledger held
\* a stale Read record of another owner.
C4_Witness ==
    /\ ret.op = "cleanup"
    /\ ret.lock # None
    /\ \E i \in reads_of(ret.text) :
          /\ ~startswith(records(ret.text)[i], ret.lock)
          /\ age_of(records(ret.text)[i], ret.now) >= Day
    /\ all_stale(ret.text, ret.now)
    /\ ret.deleted
    /\ ~dirExists

\* C2: once a Copy job was submitted, the sizes of the files with a Copy job
\* sum to at most max_gb, and the running total cur_gb is at most max_gb.
copy_jobs == {j \in 1..Len(futures) : futures[j].kind = "copy"}

RECURSIVE sum_gb(_)
sum_gb(J) ==
    IF J = {} THEN 0
    ELSE LET j == CHOOSE k \in J : TRUE IN futures[j].gb + sum_gb(J \ {j})

C2_QuotaInvariant ==
    copy_jobs # {} => (sum_gb(copy_jobs) <= max_gb /\ cur_gb <= max_gb)

\* C2 witness: a finished run that submitted two Copy jobs of non-zero size
\* which use the budget up exactly.
C2_Witness ==
    /\ pc = "done"
    /\ Cardinality(copy_jobs) = 2
    /\ \A j \in copy_jobs : futures[j].gb > 0
    /\ sum_gb(copy_jobs) = max_gb

\* C5: the lock is rotated only after every submitted job has finished: no
\* job is queued or running when remove_lock is reached or once the run's
\* own Write record is gone from the ledger.
own_write_record_present ==
    \E i \in 1..Len(records(content)) :
        records(content)[i] = record(lock, timestamp, "write")

no_job_outstanding ==
    \A j \in 1..Len(futures) : futures[j].st \notin {"queued", "running"}

C5_JobsCompleteBeforeRotation ==
    /\ pc \in {"rotate", "done"} => no_job_outstanding
    /\ (pc # "start" /\ ~own_write_record_present) => no_job_outstanding

\* C5 witness: a run with an owner id has rotated its lock after two jobs,
\* one of which failed.
C5_Witness ==
    /\ pc = "done"
    /\ lock # None
    /\ ~own_write_record_present
    /\ Len(futures) = 2
    /\ \E j \in 1..Len(futures) : futures[j].st = "failed"
    /\ \E j \in 1..Len(futures) : futures[j].st = "done"

\* C6: within one run no target path has a job submitted more than once.
C6_NoPathSubmittedTwice ==
    \A i, j \in 1..Len(futures) : i # j => futures[i].tgt # futures[j].tgt

\* C7: a run that has completed has its own Write record removed from the
\* ledger, with or without an owner id, and the ledger holds a Read record of
\* this owner with the run timestamp exactly when an owner id was supplied.
C7_LockRotated ==
    pc = "done" =>
        /\ ~own_write_record_present
        /\ (lock # None <=>
                \E i \in 1..Len(records(content)) :
                    records(content)[i] = record(lock, timestamp, "read"))

\* C10: has_locks with wait_write_lock set returns after at most 12
\* evaluations of the while condition, whatever the other processes do to the
\* ledger; the k-th wait is 2^(k-1) time units (1, 2, 4, ...); and when it
\* gives up it returns normally with have_write_locks = True.
C10_BoundedWait ==
    /\ [](scans <= 12)
    /\ [](pc = "sleep" => (tries = 2 ^ (scans - 1) /\ slept = tries - 1))
    /\ []((pc = "returned" /\ tries > MaxTries) => have_write_locks)
    /\ <>(pc = "returned")

\* C10 witness: the call gave up on a foreign Write record that is still in
\* the ledger, after 12 evaluations, and returned have_write_locks = True.
C10_Witness ==
    /\ pc = "returned"
    /\ tries > MaxTries
    /\ scans = 12
    /\ have_write_locks
    /\ any_foreign_write(content, lock)

C12_CleanupNeverSleeps == ret.op = "cleanup" => ret.slept = 0

\* C12 amended: cleanup queries the locks with wait_write_lock set.  It does
\* not sleep when the caller is anonymous or every Write record is the
\* caller's own; when a Write line does not start with the caller's non-null
\* id it sleeps at least once, and then it refuses.
C12_CleanupWaitsOnForeignWrite ==
    ret.op = "cleanup" =>
        /\ ( \/ ret.lock = None
             \/ \A i \in writes_of(ret.text) :
                    owner_of(records(ret.text)[i]) = ret.lock ) => ret.slept = 0
        /\ ( /\ ret.lock # None
             /\ \E i \in writes_of(ret.text) :
                    ~startswith(records(ret.text)[i], ret.lock) )
               => (ret.slept >= 1 /\ ~ret.deleted)
        /\ ret.slept > 0 => ~ret.deleted

\* C12 witness: cleanup slept on a Write record of another owner and refused.
C12_Witness ==
    /\ ret.op = "cleanup"
    /\ ret.lock # None
    /\ \E i \in writes_of(ret.text) : ~startswith(records(ret.text)[i], ret.lock)
    /\ ret.slept > 0
    /\ ret.write
    /\ ~ret.deleted
    /\ dirExists

\* C13: within one split, the Copy job of a noise file is submitted before
\* the Copy job of a speech file, and that of a speech file before that of a
\* rir file, whatever their sampling factors and catalog order.
type_rank(t) == CASE t = "noise" -> 1 [] t = "speech" -> 2 [] OTHER -> 3

C13_NoiseBeforeSpeechBeforeRir ==
    \A i, j \in copy_jobs :
        ( /\ split_of(cfg, dstypes, futures[i].pos) = split_of(cfg, dstypes, futures[j].pos)
          /\ type_rank(dstypes[futures[i].tgt]) < type_rank(dstypes[futures[j].tgt]) )
        => i < j

\* C13 witness: a split lists a speech file with factor 2 before a noise file
\* with factor 1; both were copied, the noise file first.
C13_Witness ==
    /\ pc = "done"
    /\ Len(futures) = 2
    /\ copy_jobs = {1, 2}
    /\ \E sp \in {"train", "valid", "test"} :
          /\ Len(cfg[sp]) = 2
          /\ dstypes[cfg[sp][1][1]] = "speech" /\ cfg[sp][1][2] = 2
          /\ dstypes[cfg[sp][2][1]] = "noise" /\ cfg[sp][2][2] = 1
          /\ futures[1].tgt = cfg[sp][2][1]
          /\ futures[2].tgt = cfg[sp][1][1]

\* ------------------------------------------- copy_datasets, run a second time
\* The files the planner visits.
visited_files ==
    {planning_order(cfg, dstypes)[k] : k \in 1..Len(planning_order(cfg, dstypes))}

\* A completed run is followed by a second run of the script, in a new process
\* started in the same minute or the minute after; ret keeps the entries of
\* the target directory as the first run left them and the range of what du
\* reports for the directory now.
Rerun ==
    /\ pc = "done"
    /\ ret.op = "none"
    /\ ret' = [op |-> "copy_datasets", fs |-> fs,
               rsync_failed |-> \E j \in 1..Len(futures) : futures[j].rsync = "failed",
               du_lo |-> cur_gb - sum_gb(copy_jobs), du_hi |-> cur_gb]
    /\ pc' = "start"
    /\ timestamp' \in {timestamp, timestamp + 1}
    /\ idx' = 0
    /\ futures' = <<>>
    /\ UNCHANGED <<ledgerVars, lock, tries, slept, scans, have_read_locks,
                   have_write_locks, cfg, dstypes, max_gb, cur_gb, fs>>

\* The start of a run: the directory measured by the second run holds what
\* the first run left.
BeginRun(gb) ==
    /\ Begin(gb)
    /\ IF ret.op = "copy_datasets"
       THEN gb \in ret.du_lo..ret.du_hi
       ELSE gb <= MaxSize

\* Two runs over one source: every source file is MaxSize GB in both runs.
NextTwice ==
    \/ \E gb \in 0..(MaxSize * (MaxEntries + 1)) : BeginRun(gb)
    \/ \E ln_ok \in BOOLEAN : Visit(MaxSize, ln_ok)
    \/ \E j \in 1..MaxEntries : JobStart(j)
    \/ \E j \in 1..MaxEntries : CpOk(j)
    \/ \E j \in 1..MaxEntries, ln_ok \in BOOLEAN : CpFail(j, ln_ok)
    \/ Completed
    \/ Rotate
    \/ Rerun

SpecTwice == InitRun /\ [][NextTwice]_vars

C15_PrimitiveFailureNeverAbortsRun == pc # "failed"

\* C16: the step in which the rsync call of a job fails leaves the target a
\* link, the job finished and the run going when the link primitive succeeds;
\* when the link primitive fails too, the target is absent.  No full or
\* partial copy remains at the target either way.
C16_CopyFallback ==
    [][ \A j \in 1..Len(futures) :
          ( /\ j <= Len(futures')
            /\ futures[j].rsync = "none"
            /\ futures'[j].rsync = "failed" )
          => /\ pc' = pc
             /\ futures'[j].st \in {"done", "failed"}
             /\ futures'[j].st = "done" => fs'[futures[j].tgt] = "link"
             /\ futures'[j].st = "failed" => fs'[futures[j].tgt] = "absent" ]_vars

\* C16 witness: the run is complete, the rsync call of its one Copy job
\* failed, and the target is a link.
C16_Witness ==
    /\ pc = "done"
    /\ Len(futures) = 1
    /\ futures[1].kind = "copy"
    /\ futures[1].rsync = "failed"
    /\ futures[1].st = "done"
    /\ fs[futures[1].tgt] = "link"

\* C17: a waiting has_locks whose loop ended because the last evaluation of
\* the while condition found no foreign Write line returns
\* have_write_locks = False.
C17_ResultReflectsLastScan ==
    (pc \in {"scan", "returned"} /\ tries <= MaxTries) => ~have_write_locks

\* ------------------------------------------------ the planner, file by file
\* The file a planning step visits, its target entry, and the budget test,
\* every source file being MaxSize GB.
visited_fn == planning_order(cfg, dstypes)[idx + 1]
over_budget == cur_gb + MaxSize > max_gb
job_added(kind) ==
    /\ Len(futures') = Len(futures) + 1
    /\ SubSeq(futures', 1, Len(futures)) = futures
    /\ futures'[Len(futures')].tgt = visited_fn
    /\ futures'[Len(futures')].kind = kind
    /\ futures'[Len(futures')].gb = MaxSize

\* C18 as stated, for the steps in which no link primitive fails: a visited
\* file over budget is linked, or re-verified when a full copy exists and no
\* recent foreign activity was seen; any other visited file gets a Copy job
\* and consumed grows by its size; consumed changes on Copy decisions only.
C18_LinkOrCopy ==
    [][ (idx' = idx + 1 /\ pc' # "failed") =>
          IF over_budget
          THEN /\ cur_gb' = cur_gb
               /\ \/ fs'[visited_fn] = "link" /\ futures' = futures
                  \/ /\ fs[visited_fn] = "file" /\ ~have_read_locks
                     /\ job_added("check") /\ fs' = fs
          ELSE /\ job_added("copy")
               /\ cur_gb' = cur_gb + MaxSize ]_vars

\* C18 amended: over budget, an absent target is linked (the run aborting if
\* the link primitive fails), a full copy is re-verified when no recent
\* foreign activity was seen, and any other target is left as it is.  Under
\* budget, a file whose target exists is skipped when recent foreign activity
\* was seen; any other file gets a Copy job, a link at its target being
\* removed first, and consumed grows by its size.  consumed changes on Copy
\* decisions only.
C18_PlacementRule ==
    [][ idx' = idx + 1 =>
          /\ cur_gb' # cur_gb => job_added("copy")
          /\ IF over_budget
             THEN /\ cur_gb' = cur_gb
                  /\ IF fs[visited_fn] = "absent"
                     THEN /\ futures' = futures
                          /\ \/ pc' = pc /\ fs' = [fs EXCEPT ![visited_fn] = "link"]
                             \/ pc' = "failed" /\ fs' = fs
                     ELSE IF fs[visited_fn] = "file" /\ ~have_read_locks
                     THEN job_added("check") /\ fs' = fs /\ pc' = pc
                     ELSE futures' = futures /\ fs' = fs /\ pc' = pc
             ELSE /\ pc' = pc
                  /\ IF have_read_locks /\ fs[visited_fn] # "absent"
                     THEN futures' = futures /\ fs' = fs /\ cur_gb' = cur_gb
                     ELSE /\ job_added("copy")
                          /\ cur_gb' = cur_gb + MaxSize
                          /\ fs' = IF fs[visited_fn] = "link"
                                   THEN [fs EXCEPT ![visited_fn] = "absent"]
                                   ELSE fs ]_vars

\* C18 witness: the first file of the catalog was under budget and was
\* skipped, its target being a link and recent foreign activity seen.
C18_Witness ==
    /\ pc = "plan"
    /\ ret.op = "none"
    /\ idx = 1
    /\ have_read_locks
    /\ cur_gb + MaxSize <= max_gb
    /\ fs[planning_order(cfg, dstypes)[1]] = "link"
    /\ futures = <<>>

\* C19: in a run to which has_locks reported recent foreign activity, every
\* entry that was in the target directory when the run started is as it was:
\* neither removed nor replaced by a link or by a copy.  (The run is the
\* second of two, ret.fs being the entries at its start.)
C19_ReaderProtection ==
    ( /\ ret.op = "copy_datasets"
      /\ pc # "start"
      /\ have_read_locks )
    => \A f \in Files : ret.fs[f] # "absent" => fs[f] = ret.fs[f]

\* C19 witness: such a run is complete; it found an entry of a visited file,
\* a full copy or a link, and left it, and it added an entry at a path that
\* was absent.
C19_Witness ==
    /\ ret.op = "copy_datasets"
    /\ pc = "done"
    /\ have_read_locks
    /\ \E f \in visited_files :
          ret.fs[f] \in {"file", "link"} /\ fs[f] = ret.fs[f]
    /\ \E f \in visited_files : ret.fs[f] = "absent" /\ fs[f] # "absent"

\* C20: the frame of a rotation remove_lock(dir, X, newLine), newLine being
\* the Read record of X: the lines that start neither with X nor with newLine
\* stay, unchanged and in their order; no earlier line that starts with X
\* stays; newLine occurs once, as the last line; in particular ...
frame_of_prefix(before, after, prefix, new_line) ==
    /\ after # <<>>
    /\ after[Len(after)] = new_line
    /\ SubSeq(after, 1, Len(after) - 1)
           = SelectSeq(before, LAMBDA line :
                 ~startswith(line, prefix) /\ ~startswith(line, new_line))

\* ... the records of every other owner id stay in the ledger.
other_owners_kept(before, after, owner) ==
    \A i \in 1..Len(before) :
        owner_of(before[i]) # owner => \E k \in 1..Len(after) : after[k] = before[i]

C20_RemoveLockFrame ==
    [][ \A o \in Owners, t \in RecordTimes :
          (lockExists /\ content' = remove_lock(content, o, record(o, t, "read")))
          => /\ frame_of_prefix(records(content), records(content'),
                                o, record(o, t, "read"))
             /\ other_owners_kept(records(content), records(content'), o) ]_vars

\* --------------------------------------- completed runs, one after another
\* A whole run of copy_datasets on the ledger, no other process running
\* meanwhile: the Write record is appended (line 103) and, when an owner id
\* was supplied, rotated into a Read record (lines 152-153).
CompletedRun(l, t) ==
    /\ Len(records(content)) < MaxLines
    /\ dirExists' = TRUE
    /\ lockExists' = TRUE
    /\ content' = IF l # None
                  THEN remove_lock(append_write(content, l, t), l, record(l, t, "read"))
                  ELSE append_write(content, l, t)
    /\ ret' = NoRet
    /\ UNCHANGED <<callVars, planVars>>

\* Completed runs, with lock queries and cleanups between them.
NextRuns ==
    \/ \E l \in Locks, t \in RecordTimes : CompletedRun(l, t)
    \/ \E l \in Locks, w \in BOOLEAN, t \in Times : Query(l, w, t)
    \/ \E l \in Locks, t \in Times : Cleanup(l, t)

SpecRuns == InitLedger /\ [][NextRuns]_vars

\* C23: after any sequence of completed, non-overlapping runs the ledger
\* holds no Write record and at most one record per owner id.
C23_LedgerStaysSmall ==
    /\ writes_of(content) = {}
    /\ \A i, j \in 1..Len(records(content)) :
          owner_of(records(content)[i]) = owner_of(records(content)[j]) => i = j

\* ------------------------------ two copy_datasets processes, step by step
\* Two processes run copy_datasets on one target directory.  In this
\* specification pc, lock, timestamp, tries, slept, scans, have_read_locks and
\* have_write_locks are functions of the process, and ret[p] is what the
\* remove_lock call of process p holds in its local list `lines`.
Procs == {1, 2}

\* Two owner ids neither of which is a prefix of the other.
PairLocks == <<<<"a", "b">>, <<"b">>>>

InitPair ==
    /\ dirExists = TRUE
    /\ lockExists \in BOOLEAN
    /\ content = EmptyFile
    /\ ret = [p \in Procs |-> NoRet]
    /\ pc = [p \in Procs |-> "call"]
    /\ lock = [p \in Procs |-> PairLocks[p]]
    /\ timestamp \in [Procs -> RecordTimes]
    /\ tries = [p \in Procs |-> 1]
    /\ slept = [p \in Procs |-> 0]
    /\ scans = [p \in Procs |-> 0]
    /\ have_read_locks = [p \in Procs |-> FALSE]
    /\ have_write_locks = [p \in Procs |-> FALSE]
    /\ NoPlan

\* Lines 99-101 and 56-61: has_locks is entered; without a ledger file it
\* returns at once and the Write record is appended next.
PEnter(p) ==
    /\ pc[p] = "call"
    /\ pc' = [pc EXCEPT ![p] = IF lockExists THEN "while" ELSE "append"]
    /\ UNCHANGED <<ledgerVars, ret, lock, timestamp, tries, slept, scans,
                   have_read_locks, have_write_locks, planVars>>

\* Lines 62-69: one evaluation of the while condition, wait_write_lock set.
PWhileTest(p) ==
    /\ pc[p] = "while"
    /\ scans' = [scans EXCEPT ![p] = @ + 1]
    /\ IF any_foreign_write(content, lock[p])
       THEN /\ have_write_locks' = [have_write_locks EXCEPT ![p] = TRUE]
            /\ pc' = [pc EXCEPT ![p] = "sleep"]
       ELSE /\ UNCHANGED have_write_locks
            /\ pc' = [pc EXCEPT ![p] = "scan"]
    /\ UNCHANGED <<ledgerVars, ret, lock, timestamp, tries, slept,
                   have_read_locks, planVars>>

\* Lines 72-75: sleep(tries), double tries, give up beyond 2**11.
PSleep(p) ==
    /\ pc[p] = "sleep"
    /\ slept' = [slept EXCEPT ![p] = @ + tries[p]]
    /\ tries' = [tries EXCEPT ![p] = next_tries(@)]
    /\ pc' = [pc EXCEPT ![p] = IF tries'[p] > MaxTries THEN "scan" ELSE "while"]
    /\ UNCHANGED <<ledgerVars, ret, lock, timestamp, scans,
                   have_read_locks, have_write_locks, planVars>>

\* Lines 76-92: the second scan; has_locks returns to copy_datasets.
PScan(p) ==
    /\ pc[p] = "scan"
    /\ have_read_locks' =
           [have_read_locks EXCEPT ![p] = read_scan(content, lock[p], timestamp[p])]
    /\ pc' = [pc EXCEPT ![p] = "append"]
    /\ UNCHANGED <<ledgerVars, ret, lock, timestamp, tries, slept, scans,
                   have_write_locks, planVars>>

\* Line 103: the Write record is appended, whatever has_locks returned; the
\* planning and copy phase begins.
PAppend(p) ==
    /\ pc[p] = "append"
    /\ lockExists' = TRUE
    /\ content' = append_write(content, lock[p], timestamp[p])
    /\ pc' = [pc EXCEPT ![p] = "planning"]
    /\ UNCHANGED <<dirExists, ret, lock, timestamp, tries, slept, scans,
                   have_read_locks, have_write_locks, planVars>>

\* Lines 153 and 158-168: the planning and copy phase is over; remove_lock
\* reads the ledger and builds `lines`, the kept lines and the Read record.
PReadLines(p) ==
    /\ pc[p] = "planning"
    /\ LET new_lock == record(lock[p], timestamp[p], "read")
       IN  ret' = [ret EXCEPT ![p] =
                      [op |-> "remove_lock",
                       lines |-> kept_lines(readlines(content), lock[p], new_lock)
                                     \o <<new_lock>>]]
    /\ pc' = [pc EXCEPT ![p] = "write"]
    /\ UNCHANGED <<ledgerVars, lock, timestamp, tries, slept, scans,
                   have_read_locks, have_write_locks, planVars>>

\* Lines 169-170: f.seek(0); f.writelines(lines): the file is overwritten
\* from its start and keeps what it holds beyond the written part (a line
\* counted as one unit of length).
PWriteLines(p) ==
    /\ pc[p] = "write"
    /\ LET n == Len(ret[p].lines)
           m == Len(content.lines)
       IN  content' = [lines |-> ret[p].lines \o SubSeq(content.lines, n + 1, m),
                       eol |-> IF m > n THEN content.eol ELSE TRUE]
    /\ pc' = [pc EXCEPT ![p] = "truncate"]
    /\ UNCHANGED <<dirExists, lockExists, ret, lock, timestamp, tries, slept, scans,
                   have_read_locks, have_write_locks, planVars>>

\* Line 171: f.truncate() resizes the file to the end of the written part:
\* a longer file is cut there, a file the other process has cut shorter in
\* the meantime is filled up with NUL bytes.
PTruncate(p) ==
    /\ pc[p] = "truncate"
    /\ LET n == Len(ret[p].lines)
           m == Len(content.lines)
       IN  content' = IF m >= n
                      THEN [lines |-> SubSeq(content.lines, 1, n), eol |-> TRUE]
                      ELSE [lines |-> content.lines \o [i \in 1..(n - m) |-> <<"\\0">>],
                            eol |-> FALSE]
    /\ pc' = [pc EXCEPT ![p] = "done"]
    /\ UNCHANGED <<dirExists, lockExists, ret, lock, timestamp, tries, slept, scans,
                   have_read_locks, have_write_locks, planVars>>

NextPair ==
    \E p \in Procs :
        \/ PEnter(p)
        \/ PWhileTest(p)
        \/ PSleep(p)
        \/ PScan(p)
        \/ PAppend(p)
        \/ PReadLines(p)
        \/ PWriteLines(p)
        \/ PTruncate(p)

SpecPair == InitPair /\ [][NextPair]_vars

\* C21: two processes with different owner ids are never both in the
\* planning and copy phase, as long as neither has given up its wait.
C21_WriterExclusion ==
    (\A p \in Procs : tries[p] <= MaxTries)
    => ~(\A p \in Procs : pc[p] = "planning")

\* C22: when the remove_lock of one process has finished and the other
\* process has appended its Write record and not begun to rotate it, that
\* Write record is in the ledger.
C22_NoLostAppend ==
    \A p, q \in Procs :
        (pc[p] = "done" /\ pc[q] = "planning")
        => \E i \in 1..Len(records(content)) :
              records(content)[i] = record(lock[q], timestamp[q], "write")

====
